---- MODULE Spec2Model ----
\* ImageBatcher (python/infer/batcher.py): image discovery, exact-batch
\* truncation, layout inference, batch partitioning and the lazy iterator
\* that preprocesses each batch with a per-batch thread pool.
EXTENDS Integers, Sequences, FiniteSets, TLC

\* ---------------------------------------------------------------- bounds
\* Largest batch size shape[0] tried (0 included: a zero batch axis).
MaxBatch == 3
\* Non-batch axes of the shape descriptor range over 3..MaxDim.
MaxDim == 4
\* Generators of one object alive together (calls of __iter__).
MaxGens == 2

\* ------------------------------------------------------------ file system
\* The entries a directory may hold: path, suffix (Path.suffix), is_file(),
\* and rank, the position of the path in sorted() order (code-point order of
\* the path string, so "B.JPG" sorts before "a.jpg").
Catalog ==
    { [path |-> "B.JPG",  suffix |-> ".JPG",  isFile |-> TRUE,  rank |-> 1],
      [path |-> "a.jpg",  suffix |-> ".jpg",  isFile |-> TRUE,  rank |-> 2],
      [path |-> "c.png",  suffix |-> ".png",  isFile |-> TRUE,  rank |-> 3],
      [path |-> "d.txt",  suffix |-> ".txt",  isFile |-> TRUE,  rank |-> 4],
      [path |-> "e.bmp",  suffix |-> ".bmp",  isFile |-> FALSE, rank |-> 5] }

\* str.lower() on the suffixes that occur.
Lower(s) ==
    CASE s = ".JPG" -> ".jpg"
      [] OTHER -> s

\* The input_path argument: a path that does not exist, a single file, or a
\* directory holding a subset of the catalog.
InputPaths ==
    { [kind |-> "missing", entries |-> {}] }
    \cup { [kind |-> "file", entries |-> {e}] : e \in {c \in Catalog : c.isFile} }
    \cup { [kind |-> "dir", entries |-> S] : S \in SUBSET Catalog }

\* The directories the traversal is followed on: the entries that are no
\* images, and the first k image files, k = 0..3.
TraversedPaths ==
    { [kind |-> "dir", entries |-> {c \in Catalog : c.rank <= k \/ c.rank > 3}] : k \in 0..3 }

Shapes == { <<n, d1, d2, d3>> : n \in 0..MaxBatch, d1 \in 3..MaxDim,
                                d2 \in 3..MaxDim, d3 \in 3..MaxDim }

\* The descriptors the traversal is followed on: every batch size, and one
\* descriptor per layout: (3,3,M) channel-first, (M,3,3) channel-last,
\* (3,3,3) both, (M,3,M) neither, M = MaxDim.
TraversedShapes == { <<n, d1, 3, d3>> : n \in 0..MaxBatch, d1 \in {3, MaxDim},
                                        d3 \in {3, MaxDim} }

\* 0-based indexing of a tuple, as in the source.
At(s, i) == s[i + 1]

Min(a, b) == IF a < b THEN a ELSE b

\* Python slice s[lo:hi] for 0 <= lo, 0 <= hi (bounds clamp to len(s)).
Slice(s, lo, hi) == SubSeq(s, Min(lo, Len(s)) + 1, Min(hi, Len(s)))

Range(s) == { s[i] : i \in 1..Len(s) }

\* ------------------------------------------------------------ _find_images
extensions == {".jpg", ".jpeg", ".png", ".bmp"}

\* Mutant: the suffix is compared without lower-casing it.
is_image_case_sensitive(e) == e.isFile /\ e.suffix \in extensions

is_image(e) == e.isFile /\ Lower(e.suffix) \in extensions

\* sorted(...): the entries of S by increasing rank.
RECURSIVE Sorted(_)
Sorted(S) ==
    IF S = {} THEN <<>>
    ELSE LET m == CHOOSE x \in S : \A y \in S : x.rank <= y.rank
         IN  <<m.path>> \o Sorted(S \ {m})

\* The orders random.shuffle may leave the list in.
Shuffles(s) ==
    { t \in [1..Len(s) -> Range(s)] : Range(t) = Range(s) }

\* The list built on line 119, before shuffling.
Discovered(p) ==
    IF p.kind = "dir" THEN Sorted({e \in p.entries : is_image(e)})
    ELSE Sorted(p.entries)

\* The set of outcomes of _find_images: an error or an image list.
FindImages(p, shuffle) ==
    IF p.kind = "missing" THEN { [err |-> "ValueError: Directory not found", images |-> <<>>] }
    ELSE LET found == Discovered(p)
             lists == IF shuffle THEN Shuffles(found) ELSE {found}
         IN  { [err |-> IF l = <<>> THEN "ValueError: No image files found" ELSE "",
                images |-> l] : l \in lists }

\* ---------------------------------------------------- _handle_exact_batches
\* Mutant: the count is rounded down but the list is not cut to it.
HandleExactBatchesNoSlice(imgs, n, b, exact) ==
    IF ~exact THEN [err |-> "", images |-> imgs, num_images |-> n]
    ELSE IF b = 0 THEN [err |-> "ZeroDivisionError", images |-> imgs, num_images |-> n]
    ELSE LET m == b * (n \div b)
         IN  IF m < 1
             THEN [err |-> "ValueError: Not enough images to create batches",
                   images |-> imgs, num_images |-> m]
             ELSE [err |-> "", images |-> imgs, num_images |-> m]

HandleExactBatches(imgs, n, b, exact) ==
    IF ~exact THEN [err |-> "", images |-> imgs, num_images |-> n]
    ELSE IF b = 0 THEN [err |-> "ZeroDivisionError", images |-> imgs, num_images |-> n]
    ELSE LET m == b * (n \div b)
         IN  IF m < 1
             THEN [err |-> "ValueError: Not enough images to create batches",
                   images |-> imgs, num_images |-> m]
             ELSE [err |-> "", images |-> Slice(imgs, 0, m), num_images |-> m]

\* ----------------------------------------------------- _handle_tensor_shape
\* Returns <<width, height>>.
HandleTensorShape(s) ==
    IF At(s, 1) = 3 THEN <<At(s, 3), At(s, 2)>>
    ELSE IF At(s, 3) = 3 THEN <<At(s, 2), At(s, 1)>>
    ELSE <<-1, -1>>

\* ------------------------------------------------------- batch partitioning
\* int(a / b): true division, then truncation toward zero (b > 0).
TruncDiv(a, b) == IF a >= 0 THEN a \div b ELSE -((-a) \div b)

\* Mutant: the count is taken from n instead of n - 1.
NumBatchesOffByOne(n, b) == 1 + TruncDiv(n, b)

NumBatches(n, b) == 1 + TruncDiv(n - 1, b)

MakeBatches(imgs, b, nb) == [k \in 1..nb |-> Slice(imgs, (k - 1) * b, k * b)]

\* --------------------------------------------------------------- the state
VARIABLES
    input_path, shape, exact_batches, shuffle_files,   \* constructor arguments
    pc,             \* of the constructor: "new", "failed", "constructed"
    err,            \* the exception the constructor raised, "" if none
    images, num_images, batch_size, width, height, num_batches, batches,
    gens,           \* the generators the calls of __iter__ returned, in the
                    \* order of the calls, each with
                    \*   pc: "ready", "submitting", "mapping", "aborting",
                    \*       "yielded", "error", "exhausted"
                    \*   err: the exception it raised, "" if none
                    \*   cursor: batches its for loop has taken so far
                    \*   out: the tuple it yielded last, as a one-element sequence
                    \*   nyielded: tuples it has yielded
                    \*   requests: next() calls made on it
                    \*   starts: per image path, how often _preprocess_image
                    \*           began on it on behalf of this generator
    cur,            \* the generator whose body ran last (0: none has run)
    batch_images,   \* the batch generator cur produces or produced last
    futures,        \* per member of batch_images: the state of its task
    done_order      \* members of the batch in the order their tasks completed

vars == <<input_path, shape, exact_batches, shuffle_files, pc, err, images,
          num_images, batch_size, width, height, num_batches, batches, gens,
          cur, batch_images, futures, done_order>>

args == <<input_path, shape, exact_batches, shuffle_files>>
attrs == <<images, num_images, batch_size, width, height, num_batches, batches>>
iter == <<gens, cur, batch_images, futures, done_order>>

Paths == { e.path : e \in Catalog }

\* Before the constructor is called with arguments from the given sets.
InitWith(paths, shapes, shuffles) ==
    /\ input_path \in paths
    /\ shape \in shapes
    /\ exact_batches \in BOOLEAN
    /\ shuffle_files \in shuffles
    /\ pc = "new"
    /\ err = ""
    /\ images = <<>>
    /\ num_images = 0
    /\ batch_size = 0
    /\ width = 0
    /\ height = 0
    /\ num_batches = 0
    /\ batches = <<>>
    /\ gens = <<>>
    /\ cur = 0
    /\ batch_images = <<>>
    /\ futures = <<>>
    /\ done_order = <<>>

\* The traversal is followed on lists in sorted order.
Init == InitWith(TraversedPaths, TraversedShapes, {FALSE})

\* Every input path, descriptor and order, for the constructor alone.
InitOpen == InitWith(InputPaths, Shapes, BOOLEAN)

\* ----------------------------------------------------------------- __init__
Fail(e, imgs, n, b) ==
    /\ pc' = "failed"
    /\ err' = e
    /\ images' = imgs
    /\ num_images' = n
    /\ batch_size' = b
    /\ UNCHANGED <<width, height, num_batches, batches>>

Construct ==
    /\ pc = "new"
    /\ \E f \in FindImages(input_path, shuffle_files) :
         IF f.err # "" THEN Fail(f.err, <<>>, 0, 0)
         ELSE IF Len(f.images) < 1 THEN Fail("ValueError: No valid image files found", f.images, 0, 0)
         ELSE LET b  == At(shape, 0)
                  x  == HandleExactBatches(f.images, Len(f.images), b, exact_batches)
                  wh == HandleTensorShape(shape)
              IN  IF x.err # "" THEN Fail(x.err, x.images, x.num_images, b)
                  ELSE IF b = 0
                  THEN /\ pc' = "failed"
                       /\ err' = "ZeroDivisionError"
                       /\ images' = x.images
                       /\ num_images' = x.num_images
                       /\ batch_size' = b
                       /\ width' = wh[1]
                       /\ height' = wh[2]
                       /\ UNCHANGED <<num_batches, batches>>
                  ELSE /\ pc' = "constructed"
                       /\ err' = ""
                       /\ images' = x.images
                       /\ num_images' = x.num_images
                       /\ batch_size' = b
                       /\ width' = wh[1]
                       /\ height' = wh[2]
                       /\ num_batches' = NumBatches(x.num_images, b)
                       /\ batches' = MakeBatches(x.images, b, NumBatches(x.num_images, b))
    /\ UNCHANGED <<args, iter>>

\* -------------------------------------------------------- _preprocess_image
\* letterbox(image, (height, width)) of python.utils: the image resized and
\* padded to height x width x 3, and its transform record.
Letterbox(image, new_shape) ==
    [image |-> [src |-> image.src, dims |-> <<new_shape[1], new_shape[2], 3>>],
     shape |-> [of |-> image.src]]

\* np.transpose(a, axes): axis i of the result is axis axes[i] of a.
Transpose(dims, axes) == [i \in 1..Len(dims) |-> dims[axes[i] + 1]]

\* The (image, shape) pair _preprocess_image returns when no step raises.
PreprocessImage(image_path, h, w) ==
    LET decoded == [src |-> image_path]
        lb      == Letterbox(decoded, <<h, w>>)
    IN  [im    |-> [src |-> lb.image.src, dims |-> Transpose(lb.image.dims, <<2, 0, 1>>)],
         shape |-> lb.shape]

\* ----------------------------------------------------------------- __iter__
\* np.zeros(self.shape): shape[0] slots, each of the remaining dimensions.
Zeros(s) == [k \in 1..At(s, 0) |-> [src |-> "zeros", dims |-> Tail(s)]]

\* numpy's rule for batch_data[idx] = im: every axis of im equals the slot's
\* axis or is 1.
CanAssign(slot, im) ==
    /\ Len(im) = Len(slot)
    /\ \A a \in 1..Len(slot) : im[a] = slot[a] \/ im[a] = 1

\* executor.map: one task per member of the batch, submitted one after the
\* other in the order of the batch; none is submitted when map is entered.
Submit(batch) == [i \in 1..Len(batch) |-> [state |-> "unsubmitted", result |-> <<>>]]

Unsubmitted(futs) == { i \in 1..Len(futs) : futs[i].state = "unsubmitted" }

\* Mutant: the results are taken in the order the tasks completed.
ResultsByCompletion(futs, order) == [i \in 1..Len(futs) |-> futs[order[i]].result[1]]

\* list(executor.map(...)): the results in the order of the submitted members.
Results(futs, order) == [i \in 1..Len(futs) |-> futs[i].result[1]]

\* Every result is in, none raised: list(...) returns.
AllDone(futs) == \A i \in 1..Len(futs) : futs[i].state = "ok"

\* The result iterator reaches a task that raised.
Raised(futs) ==
    \E i \in 1..Len(futs) :
        /\ futs[i].state = "failed"
        /\ \A j \in 1..(i - 1) : futs[j].state = "ok"

\* Mutant: a task that raised is queued again.
AfterRaiseRetry(futs, cancel) ==
    [i \in 1..Len(futs) |->
        IF i \in cancel THEN [state |-> "cancelled", result |-> <<>>]
        ELSE IF futs[i].state = "failed" THEN [state |-> "pending", result |-> <<>>]
        ELSE futs[i]]

\* What the iterator does with the batch once a task raised: the tasks still
\* pending may be cancelled, none is set back to run again.
AfterRaise(futs, cancel) ==
    [i \in 1..Len(futs) |->
        IF i \in cancel THEN [state |-> "cancelled", result |-> <<>>] ELSE futs[i]]

Pending(futs) == { i \in 1..Len(futs) : futs[i].state = "pending" }
Running(futs) == { i \in 1..Len(futs) : futs[i].state = "running" }

\* Mutant: the pool is left without waiting for its tasks.
PoolQuietNoWait(futs) == TRUE

\* Leaving the with block: shutdown(wait=True) returns once no task of the
\* pool is queued or running.
PoolQuiet(futs) == Pending(futs) = {} /\ Running(futs) = {}

\* The caller is inside next() of a generator.
Busy == \E g \in 1..Len(gens) : gens[g].pc \in {"submitting", "mapping", "aborting"}

\* The generator a call of __iter__ returns: positioned before the first
\* batch, its body not yet entered.
NewGenerator ==
    [pc |-> "ready", err |-> "", cursor |-> 0, out |-> <<>>, nyielded |-> 0,
     requests |-> 0, starts |-> [p \in Paths |-> 0]]

\* The caller calls __iter__: one more generator of the object; the earlier
\* ones keep their positions. The caller is one thread: it is inside no
\* next() while it calls.
Iter ==
    /\ pc = "constructed"
    /\ ~Busy
    /\ Len(gens) < MaxGens
    /\ gens' = Append(gens, NewGenerator)
    /\ UNCHANGED <<args, pc, err, attrs, cur, batch_images, futures, done_order>>

\* The caller asks generator g for its next element: g takes its next batch,
\* allocates the tensor, creates the pool and enters executor.map (lines
\* 90-94).
Request(g) ==
    /\ g \in 1..Len(gens)
    /\ ~Busy
    /\ gens[g].pc \in {"ready", "yielded"}
    /\ IF gens[g].cursor >= num_batches
       THEN /\ gens' = [gens EXCEPT ![g].pc = "exhausted", ![g].requests = @ + 1]
            /\ UNCHANGED <<cur, batch_images, futures, done_order>>
       ELSE /\ cur' = g
            /\ batch_images' = batches[gens[g].cursor + 1]
            /\ done_order' = <<>>
            /\ IF Len(batches[gens[g].cursor + 1]) = 0
               THEN /\ gens' = [gens EXCEPT ![g].pc = "error",
                                            ![g].err = "ValueError: max_workers must be greater than 0",
                                            ![g].cursor = @ + 1,
                                            ![g].requests = @ + 1]
                    /\ futures' = <<>>
               ELSE /\ gens' = [gens EXCEPT ![g].pc = "submitting",
                                            ![g].cursor = @ + 1,
                                            ![g].requests = @ + 1]
                    /\ futures' = Submit(batches[gens[g].cursor + 1])
    /\ UNCHANGED <<args, pc, err, attrs>>

\* A generator is inside next(): cur is that generator.
InBody(pcs) == cur # 0 /\ gens[cur].pc \in pcs

\* executor.map submits the next member of the batch; tasks submitted
\* earlier may already be running or done. After the last submission
\* list(...) starts to wait for the results.
SubmitTask ==
    /\ InBody({"submitting"})
    /\ LET i == CHOOSE j \in Unsubmitted(futures) : \A k \in Unsubmitted(futures) : j <= k
       IN  /\ futures' = [futures EXCEPT ![i].state = "pending"]
           /\ gens' = [gens EXCEPT ![cur].pc =
                          IF Unsubmitted(futures) = {i} THEN "mapping" ELSE "submitting"]
    /\ UNCHANGED <<args, pc, err, attrs, cur, batch_images, done_order>>

\* A pool thread picks up a task: _preprocess_image begins on its image.
WorkerStart(i) ==
    /\ InBody({"submitting", "mapping", "aborting"})
    /\ i \in Pending(futures)
    /\ futures' = [futures EXCEPT ![i].state = "running"]
    /\ gens' = [gens EXCEPT ![cur].starts[batch_images[i]] = @ + 1]
    /\ UNCHANGED <<args, pc, err, attrs, cur, batch_images, done_order>>

\* The task returns its (image, shape) pair, or a step of it raises.
WorkerFinish(i, ok) ==
    /\ InBody({"submitting", "mapping", "aborting"})
    /\ i \in Running(futures)
    /\ futures' = [futures EXCEPT ![i] =
          IF ok THEN [state |-> "ok",
                      result |-> <<PreprocessImage(batch_images[i], height, width)>>]
          ELSE [state |-> "failed", result |-> <<>>]]
    /\ done_order' = Append(done_order, i)
    /\ UNCHANGED <<args, pc, err, attrs, gens, cur, batch_images>>

\* Lines 96-100: copy the results into the tensor by index and yield.
Collect ==
    /\ InBody({"mapping"})
    /\ AllDone(futures)
    /\ LET results == Results(futures, done_order)
           slots   == Zeros(shape)
       IN  IF \E i \in 1..Len(results) : i > Len(slots)
           THEN gens' = [gens EXCEPT ![cur].pc = "error", ![cur].err = "IndexError"]
           ELSE IF \E i \in 1..Len(results) : ~CanAssign(slots[i].dims, results[i].im.dims)
           THEN gens' = [gens EXCEPT ![cur].pc = "error",
                                     ![cur].err = "ValueError: could not broadcast input array"]
           ELSE gens' = [gens EXCEPT
                   ![cur].pc = "yielded",
                   ![cur].out = << [data |-> [k \in 1..Len(slots) |->
                                               IF k <= Len(results)
                                               THEN [src |-> results[k].im.src, dims |-> slots[k].dims]
                                               ELSE slots[k]],
                                    refs |-> batch_images,
                                    records |-> [k \in 1..Len(results) |-> results[k].shape]] >>,
                   ![cur].nyielded = @ + 1]
    /\ UNCHANGED <<args, pc, err, attrs, cur, batch_images, futures, done_order>>

\* The result iterator meets a task that raised; tasks not yet picked up may
\* be cancelled, and the pool is shut down waiting for the rest.
Abort ==
    /\ InBody({"mapping"})
    /\ Raised(futures)
    /\ \E cancel \in SUBSET Pending(futures) :
           futures' = AfterRaise(futures, cancel)
    /\ gens' = [gens EXCEPT ![cur].pc = "aborting"]
    /\ UNCHANGED <<args, pc, err, attrs, cur, batch_images, done_order>>

\* The pool has shut down: the exception leaves the generator.
Surface ==
    /\ InBody({"aborting"})
    /\ PoolQuiet(futures)
    /\ gens' = [gens EXCEPT ![cur].pc = "error", ![cur].err = "preprocessing failed"]
    /\ UNCHANGED <<args, pc, err, attrs, cur, batch_images, futures, done_order>>

Next ==
    \/ Construct
    \/ Iter
    \/ \E g \in 1..MaxGens : Request(g)
    \/ SubmitTask
    \/ \E i \in 1..MaxBatch : WorkerStart(i)
    \/ \E i \in 1..MaxBatch, ok \in BOOLEAN : WorkerFinish(i, ok)
    \/ Collect
    \/ Abort
    \/ Surface

Spec == Init /\ [][Next]_vars

\* Construction alone, over every input path.
NextOpen == Construct

SpecOpen == InitOpen /\ [][NextOpen]_vars

\* ------------------------------------------------------------------ claims
\* The object exists: __init__ returned.
Constructed == pc = "constructed"

\* _handle_tensor_shape has returned (line 77 assigned width and height).
ShapeHandled == width # 0

\* The recognised image files of the catalog, listed by hand.
RecognizedPaths == {"B.JPG", "a.jpg", "c.png"}
RecognizedCount == Cardinality({e \in input_path.entries : e.path \in RecognizedPaths})

\* ceil(n / b) for n >= 1, b >= 1: the least q with q * b >= n.
CeilDiv(n, b) == CHOOSE q \in 1..n : q * b >= n /\ (q - 1) * b < n

RECURSIVE Concat(_)
Concat(ss) == IF Len(ss) = 0 THEN <<>> ELSE Head(ss) \o Concat(Tail(ss))

\* C1: construction builds exactly ceil(n / b) batches; batch k is the
\* contiguous slice images[k*b .. min((k+1)*b, n) - 1]; every batch but the
\* last has b images, the last has n mod b (or b when b divides n); the
\* batches concatenated in order equal the resolved list.
C1_Partition ==
    Constructed =>
        LET n == num_images
            b == batch_size
        IN  /\ n >= 1 /\ b >= 1 /\ n = Len(images)
            /\ num_batches = CeilDiv(n, b)
            /\ Len(batches) = num_batches
            /\ \A k \in 0..(num_batches - 1) :
                 LET hi == Min((k + 1) * b, n)
                 IN  /\ Len(batches[k + 1]) = hi - k * b
                     /\ \A j \in 1..(hi - k * b) : batches[k + 1][j] = images[k * b + j]
                     /\ k < num_batches - 1 => Len(batches[k + 1]) = b
            /\ Len(batches[num_batches]) = (IF n % b = 0 THEN b ELSE n % b)
            /\ Concat(batches) = images

\* C1 witness: several batches, the last one short.
C1_Witness ==
    /\ Constructed
    /\ num_batches >= 2
    /\ Len(batches[num_batches]) < batch_size

\* C2: with exact_batches the image list is the prefix of the (possibly
\* shuffled) discovered list of length b * floor(c / b) and every batch has
\* exactly b images; when c < b construction fails and no iterator exists;
\* without exact_batches the list is left unchanged.
C2_ExactBatches ==
    (pc # "new" /\ input_path.kind # "missing" /\ At(shape, 0) >= 1) =>
        LET found == FindImages(input_path, shuffle_files)
            c == Cardinality(Range(Discovered(input_path)))
            b == At(shape, 0)
            m == b * (c \div b)
        IN  c >= 1 =>
            IF exact_batches
            THEN IF c < b
                 THEN pc = "failed" /\ err = "ValueError: Not enough images to create batches"
                 ELSE /\ Constructed
                      /\ num_images = m
                      /\ Len(images) = m
                      /\ Len(images) % b = 0
                      /\ \E g \in found : images = SubSeq(g.images, 1, m)
                      /\ \A k \in 1..Len(batches) : Len(batches[k]) = b
            ELSE /\ Constructed
                 /\ num_images = c
                 /\ images \in { g.images : g \in found }

\* C2 witness: exact batching dropped trailing images of a shuffled list.
C2_Witness ==
    /\ Constructed
    /\ exact_batches
    /\ shuffle_files
    /\ num_images = 2
    /\ RecognizedCount = 3
    /\ input_path.kind = "dir"

\* C3: (N,3,H,W) gives (width=W, height=H); (N,H,W,3) gives
\* (width=W, height=H); a shape matching neither gives (-1,-1).
C3_Claim ==
    ShapeHandled =>
        /\ At(shape, 1) = 3 => (width = At(shape, 3) /\ height = At(shape, 2))
        /\ At(shape, 3) = 3 => (width = At(shape, 2) /\ height = At(shape, 1))
        /\ (At(shape, 1) # 3 /\ At(shape, 3) # 3) => (width = -1 /\ height = -1)

\* C4: in every tuple a generator yielded, slot i holds the sample of the
\* i-th image of the batch and record i belongs to that image, whatever
\* order the workers completed in; the tensor has the full descriptor shape
\* and the slots past the member count are zeros.
C4_SlotOrder ==
    \A g \in 1..Len(gens) :
        gens[g].pc = "yielded" =>
            LET t == gens[g].out[1]
                members == batches[gens[g].cursor]
                m == Len(members)
            IN  /\ t.refs = members
                /\ Len(t.data) = At(shape, 0)
                /\ Len(t.records) = m
                /\ \A i \in 1..Len(t.data) :
                     /\ t.data[i].dims = <<At(shape, 1), At(shape, 2), At(shape, 3)>>
                     /\ i <= m => (t.data[i].src = members[i] /\ t.records[i].of = members[i])
                     /\ i > m => t.data[i].src = "zeros"

\* C4 witness: a short batch was yielded whose workers completed out of order.
C4_Witness ==
    /\ cur # 0
    /\ gens[cur].pc = "yielded"
    /\ Len(batch_images) = 2
    /\ At(shape, 0) > 2
    /\ done_order = <<2, 1>>

Failed(futs) == { i \in 1..Len(futs) : futs[i].state = "failed" }

\* C5: when preprocessing of an image of a batch fails, no tuple is yielded
\* for that batch and the error reaches the caller; a yielded tuple has every
\* member of its batch; a generator preprocesses no image twice.
C5_FailureAborts ==
    /\ (cur # 0 /\ Failed(futures) # {}) =>
          /\ gens[cur].pc \in {"submitting", "mapping", "aborting", "error"}
          /\ gens[cur].nyielded = gens[cur].cursor - 1
    /\ \A g \in 1..Len(gens) :
          /\ gens[g].pc = "error" =>
                (gens[g].err # "" /\ gens[g].nyielded = gens[g].cursor - 1)
          /\ gens[g].pc = "yielded" =>
                /\ gens[g].nyielded = gens[g].cursor
                /\ Len(gens[g].out[1].refs) = Len(batches[gens[g].cursor])
                /\ Len(gens[g].out[1].records) = Len(batches[gens[g].cursor])
          /\ \A p \in Paths : gens[g].starts[p] <= 1

\* C5 witness: the error surfaced for a batch of which another image had
\* been preprocessed successfully.
C5_Witness ==
    /\ cur # 0
    /\ gens[cur].pc = "error"
    /\ Failed(futures) # {}
    /\ \E i \in 1..Len(futures) : futures[i].state = "ok"

\* C6 as stated: for a directory with at least one recognised image file
\* and every shape, exact_batches and shuffle, construction succeeds and
\* num_images is the number of recognised files.
C6_Original ==
    (pc # "new" /\ input_path.kind = "dir" /\ RecognizedCount >= 1) =>
        (Constructed /\ num_images = RecognizedCount)

\* C6 amended: for such a directory and a batch size b >= 1, without
\* exact_batches construction succeeds and num_images is the number c of
\* recognised files; with exact_batches it succeeds exactly when c >= b and
\* num_images is b * floor(c / b).
C6_ResolvedCount ==
    (pc # "new" /\ input_path.kind = "dir" /\ RecognizedCount >= 1 /\ At(shape, 0) >= 1) =>
        LET c == RecognizedCount
            b == At(shape, 0)
        IN  IF exact_batches
            THEN /\ Constructed <=> c >= b
                 /\ Constructed => num_images = b * (c \div b)
            ELSE Constructed /\ num_images = c

\* C6 witness: a directory with an upper-case suffix, a non-image file and a
\* sub-directory named like an image was opened.
C6_Witness ==
    /\ Constructed
    /\ input_path.kind = "dir"
    /\ input_path.entries = Catalog
    /\ ~exact_batches
    /\ num_images = 3

\* C7: during a traversal a tuple is yielded only after every worker of its
\* batch completed; workers run only for the batch last requested from the
\* generator, which is requested only after the previous one was yielded;
\* while the caller holds control no task is waiting to be submitted,
\* pending or running, whatever other generators of the object exist.
C7_PullDriven ==
    /\ (cur # 0 /\ gens[cur].pc = "yielded") =>
          \A i \in 1..Len(futures) : futures[i].state = "ok"
    /\ \A g \in 1..Len(gens) :
          /\ gens[g].cursor <= gens[g].requests
          /\ gens[g].cursor <= gens[g].nyielded + 1
          /\ \A k \in 1..Len(images) :
                gens[g].starts[images[k]] > 0 =>
                    ((k - 1) \div batch_size) + 1 <= gens[g].cursor
    /\ ~Busy =>
          (Unsubmitted(futures) = {} /\ Pending(futures) = {} /\ Running(futures) = {})

\* C7 witness: two generators, each suspended after its first batch, and
\* nothing of the second batch has begun for either.
C7_Witness ==
    /\ Len(gens) = 2
    /\ num_batches >= 2
    /\ \A g \in 1..2 :
          /\ gens[g].pc = "yielded"
          /\ gens[g].cursor = 1
          /\ \A i \in 1..Len(batches[2]) : gens[g].starts[batches[2][i]] = 0

\* C8: resolved (non-sentinel) dimensions are produced only when exactly one
\* of positions 1 and 3 of the descriptor equals 3.
C8_Claim ==
    (ShapeHandled /\ (width # -1 \/ height # -1)) =>
        ((At(shape, 1) = 3) # (At(shape, 3) = 3))

\* C9: _preprocess_image is never started while width = -1 or height = -1.
C9_Claim ==
    (width = -1 \/ height = -1) =>
        \A g \in 1..Len(gens) : \A p \in Paths : gens[g].starts[p] = 0

\* C10: with resolved layout the array _preprocess_image returns has the
\* shape of one slot of the batch tensor, and the copy into the slot raises
\* no shape mismatch.
C10_Claim ==
    (ShapeHandled /\ width # -1 /\ height # -1) =>
        /\ \A i \in 1..Len(futures) :
              futures[i].state = "ok" =>
                  futures[i].result[1].im.dims = <<At(shape, 1), At(shape, 2), At(shape, 3)>>
        /\ \A g \in 1..Len(gens) :
              gens[g].err # "ValueError: could not broadcast input array"
====
